---------------------------- MODULE Spec2Model ----------------------------
(***************************************************************************)
(* Pushdown automata and context-free grammars of tp_LF.                   *)
(*                                                                         *)
(* A Python string is modelled as the sequence of its characters, so a     *)
(* token such as "S0" is <<"S", "0">> and the empty string is <<>>.  A     *)
(* Python list is a sequence, a tuple is a tuple.  Python's None is the    *)
(* value None below, which is no string of characters.                     *)
(***************************************************************************)
EXTENDS Integers, Sequences, FiniteSets, TLC

VARIABLES
    initialstate,    \* StackAutomaton.initialstate
    initialstack,    \* StackAutomaton.initialstack
    finalList,       \* StackAutomaton.finalList
    transitionList,  \* StackAutomaton.transitionList
    axiom,           \* Grammar.axiom
    ruleList,        \* Grammar.ruleList
    pc,              \* "idle", or the position inside a running pass
    changes,         \* the local flag of the running fixed-point loop
    ret              \* what the last call returned (or raised)

pdaVars == <<initialstate, initialstack, finalList, transitionList>>
gramVars == <<axiom, ruleList>>
vars == <<initialstate, initialstack, finalList, transitionList,
          axiom, ruleList, pc, changes, ret>>

\* Bounds of the model
MaxTrans    == 2   \* transitions of an automaton that is executed
MaxDetTrans == 3   \* transitions of an automaton checked for determinism
MaxFinal    == 1   \* final states
MaxInput    == 2   \* characters of an input string
MaxRules    == 2   \* rules added to a grammar
MaxReplLen  == 2   \* symbols of a replacement given to add_rule
MaxTxtFinal == 2   \* final states of an automaton that is saved

None == <<"None">>
EPSILON == <<"%">>

\* Sequence helpers -------------------------------------------------------

Range(s) == {s[i] : i \in 1..Len(s)}

\* list.remove(x): drops the first element equal to x
RECURSIVE ListRemove(_, _)
ListRemove(s, x) ==
    IF s = <<>> THEN <<>>
    ELSE IF Head(s) = x THEN Tail(s)
    ELSE <<Head(s)>> \o ListRemove(Tail(s), x)

Reverse(s) == [i \in 1..Len(s) |-> s[Len(s) + 1 - i]]

\* The record a call leaves behind.  val is "True", "False", "None" (no
\* return statement reached) or the name of the exception raised.
NoRet == [op |-> "none", val |-> "None", input |-> <<>>,
          steps |-> 0, state |-> None, stack |-> <<>>]

Ret(op, val) == [NoRet EXCEPT !.op = op, !.val = val]

Bool(b) == IF b THEN "True" ELSE "False"

(***************************************************************************)
(* StackAutomaton mutators                                                 *)
(***************************************************************************)

AddTransition(source, letter, head, push, target) ==
    /\ pc = "idle"
    /\ transitionList' =
         IF <<source, letter, head, push, target>> \in Range(transitionList)
           THEN transitionList
         ELSE IF Len(source) = 0 \/ Len(target) = 0 THEN transitionList
         ELSE IF Len(letter) # 1 THEN transitionList
         ELSE IF (\E i \in 1..Len(push) : Len(push[i]) = 0) \/ Len(head) = 0
           THEN transitionList
         ELSE Append(transitionList, <<source, letter, head, push, target>>)
    /\ ret' = NoRet
    /\ UNCHANGED <<initialstate, initialstack, finalList, gramVars, pc, changes>>

RemoveTransition(source, letter, head, push, target) ==
    /\ pc = "idle"
    /\ transitionList' =
         IF <<source, letter, head, push, target>> \notin Range(transitionList)
           THEN transitionList
         ELSE ListRemove(transitionList, <<source, letter, head, push, target>>)
    /\ ret' = NoRet
    /\ UNCHANGED <<initialstate, initialstack, finalList, gramVars, pc, changes>>

MakeFinal(state) ==
    /\ pc = "idle"
    /\ finalList' = IF state \in Range(finalList) THEN finalList
                    ELSE Append(finalList, state)
    /\ ret' = NoRet
    /\ UNCHANGED <<initialstate, initialstack, transitionList, gramVars, pc, changes>>

UnmakeFinal(state) ==
    /\ pc = "idle"
    /\ finalList' = IF state \notin Range(finalList) THEN finalList
                    ELSE ListRemove(finalList, state)
    /\ ret' = NoRet
    /\ UNCHANGED <<initialstate, initialstack, transitionList, gramVars, pc, changes>>

SetInitialState(state) ==
    /\ pc = "idle"
    /\ initialstate' = IF state = initialstate THEN initialstate ELSE state
    /\ ret' = NoRet
    /\ UNCHANGED <<initialstack, finalList, transitionList, gramVars, pc, changes>>

SetInitialStack(symbol) ==
    /\ pc = "idle"
    /\ initialstack' = IF symbol = initialstack THEN initialstack ELSE symbol
    /\ ret' = NoRet
    /\ UNCHANGED <<initialstate, finalList, transitionList, gramVars, pc, changes>>

(***************************************************************************)
(* is_deterministic                                                        *)
(***************************************************************************)

RECURSIVE DetScanNoEpsilonAfter(_, _, _)
DetScanNoEpsilonAfter(ts, i, seen) ==
    IF i > Len(ts) THEN TRUE
    ELSE LET source == ts[i][1]
             letter == ts[i][2]
             head   == ts[i][3]
         IN  IF <<source, letter, head>> \in seen THEN FALSE
             ELSE IF <<source, EPSILON, head>> \in seen THEN FALSE
             ELSE DetScanNoEpsilonAfter(ts, i + 1, seen \cup {<<source, letter, head>>})

\* is_deterministic without its inner loop (lines 19-22)
IsDeterministicNoEpsilonAfter(ts) == DetScanNoEpsilonAfter(ts, 1, {})

\* the for loop of is_deterministic from transition i on, with seen_transitions
RECURSIVE DetScan(_, _, _)
DetScan(ts, i, seen) ==
    IF i > Len(ts) THEN TRUE
    ELSE LET source == ts[i][1]
             letter == ts[i][2]
             head   == ts[i][3]
         IN  IF <<source, letter, head>> \in seen THEN FALSE
             ELSE IF <<source, EPSILON, head>> \in seen THEN FALSE
             ELSE IF /\ letter = EPSILON
                     /\ \E k \in seen : source = k[1] /\ head = k[3]
               THEN FALSE
             ELSE DetScan(ts, i + 1, seen \cup {<<source, letter, head>>})

IsDeterministic(ts) == DetScan(ts, 1, {})

IsDeterministicCall ==
    /\ pc = "idle"
    /\ ret' = Ret("is_deterministic", Bool(IsDeterministic(transitionList)))
    /\ UNCHANGED <<pdaVars, gramVars, pc, changes>>

(***************************************************************************)
(* execute                                                                 *)
(***************************************************************************)

\* Index of the transition the inner for loop of execute stops at, 0 when the
\* loop ends without a match, -1 when stack.top() raises on an empty stack.
\* The condition is evaluated left to right: stack.top() is only called for
\* a transition whose source and letter already match.
RECURSIVE FindTransition(_, _, _, _, _)
FindTransition(ts, k, current_state, char, stack) ==
    IF k > Len(ts) THEN 0
    ELSE IF ts[k][1] = current_state /\ char = ts[k][2]
      THEN IF stack = <<>> THEN -1
           ELSE IF ts[k][3] = stack[Len(stack)] THEN k
           ELSE FindTransition(ts, k + 1, current_state, char, stack)
    ELSE FindTransition(ts, k + 1, current_state, char, stack)

\* Stack after a matched transition pushing `push`: pop, then push the
\* symbols of push last to first unless push[0] is EPSILON.  The top of the
\* stack is the END of the sequence (Stack.items).
PushAll(stack, push) ==
    LET popped == SubSeq(stack, 1, Len(stack) - 1)
    IN  IF push[1] # EPSILON THEN popped \o Reverse(push) ELSE popped

\* The for loop over the input from character i on.
RECURSIVE ExecLoop(_, _, _, _, _, _, _)
ExecLoop(ts, finals, s, i, current_state, stack, steps) ==
    IF i > Len(s)
      THEN [NoRet EXCEPT !.op = "execute", !.input = s, !.steps = steps,
                         !.state = current_state, !.stack = stack,
                         !.val = IF current_state \in Range(finals)
                                   THEN "True" ELSE "None"]
    ELSE LET k == FindTransition(ts, 1, current_state, <<s[i]>>, stack)
         IN  IF k = -1
               THEN [NoRet EXCEPT !.op = "execute", !.input = s, !.steps = steps,
                                  !.state = current_state, !.stack = stack,
                                  !.val = "IndexError"]
             ELSE IF k = 0
               THEN [NoRet EXCEPT !.op = "execute", !.input = s, !.steps = steps,
                                  !.state = current_state, !.stack = stack,
                                  !.val = "False"]
             ELSE IF ts[k][4] = <<>>
               \* push[0] on an empty list, after current_state = target and pop
               THEN [NoRet EXCEPT !.op = "execute", !.input = s, !.steps = steps,
                                  !.state = ts[k][5],
                                  !.stack = SubSeq(stack, 1, Len(stack) - 1),
                                  !.val = "IndexError"]
             ELSE ExecLoop(ts, finals, s, i + 1, ts[k][5],
                           PushAll(stack, ts[k][4]), steps + 1)

Execute(ts, finals, istate, istack, s) ==
    IF ~IsDeterministic(ts)
      THEN [NoRet EXCEPT !.op = "execute", !.input = s, !.val = "False",
                         !.state = istate]
    ELSE ExecLoop(ts, finals, s, 1, istate, <<istack>>, 0)

ExecuteCall(s) ==
    /\ pc = "idle"
    /\ ret' = Execute(transitionList, finalList, initialstate, initialstack, s)
    /\ UNCHANGED <<pdaVars, gramVars, pc, changes>>

(***************************************************************************)
(* to_txtfile and from_txt                                                 *)
(*                                                                         *)
(* A text is the sequence of its characters; "\n" is the newline.          *)
(***************************************************************************)

\* sep.join(list)
RECURSIVE Join(_, _)
Join(list, sep) ==
    IF list = <<>> THEN <<>>
    ELSE IF Len(list) = 1 THEN list[1]
    ELSE list[1] \o sep \o Join(Tail(list), sep)

\* str.split(sep) for a one-character sep: always at least one piece, and an
\* empty piece wherever two separators touch or the string starts or ends
\* with one
RECURSIVE Split(_, _)
Split(str, sep) ==
    IF str = <<>> THEN << <<>> >>
    ELSE IF Head(str) = sep THEN << <<>> >> \o Split(Tail(str), sep)
    ELSE LET rest == Split(Tail(str), sep)
         IN  << <<Head(str)>> \o Head(rest) >> \o Tail(rest)

Whitespace == {" ", "\n", "\t", "\r"}

RECURSIVE LStrip(_)
LStrip(str) ==
    IF str # <<>> /\ Head(str) \in Whitespace THEN LStrip(Tail(str)) ELSE str

RECURSIVE RStrip(_)
RStrip(str) ==
    IF str # <<>> /\ str[Len(str)] \in Whitespace
      THEN RStrip(SubSeq(str, 1, Len(str) - 1))
    ELSE str

\* str.strip()
Strip(str) == RStrip(LStrip(str))

\* "if self.initialstate:" -- neither None nor the empty string
Truthy(x) == x # None /\ x # <<>>

\* The lines to_txtfile adds for the transitions from the i-th on
RECURSIVE TransitionLines(_, _)
TransitionLines(ts, i) ==
    IF i > Len(ts) THEN <<>>
    ELSE LET push    == ts[i][4]
             respush == IF Len(push) = 0 THEN <<"%">> ELSE Join(push, <<".">>)
         IN  <<"\n">> \o ts[i][1] \o <<" ">> \o ts[i][2] \o <<" ">> \o ts[i][3]
               \o <<" ">> \o respush \o <<" ">> \o ts[i][5]
               \o TransitionLines(ts, i + 1)

\* The string to_txtfile returns
ToTxtFile(istate, istack, finals, ts) ==
    (IF Truthy(istate) THEN <<"I", " ">> \o istate \o <<"\n">>
                       ELSE <<"I", "\n">>)
    \o <<"F", " ">> \o Join(finals, <<" ">>) \o <<"\n">>
    \o (IF Truthy(istack) THEN <<"S", " ">> \o istack ELSE <<"S">>)
    \o TransitionLines(ts, 1)

TxtRet(text) ==
    [op |-> "to_txtfile", val |-> "str", input |-> <<>>, steps |-> 0,
     state |-> None, stack |-> <<>>, text |-> text]

ToTxtFileCall ==
    /\ pc = "idle"
    /\ ret' = TxtRet(ToTxtFile(initialstate, initialstack, finalList,
                               transitionList))
    /\ UNCHANGED <<pdaVars, gramVars, pc, changes>>

\* add_transition as a function of the transition list
AddTransitionTo(ts, source, letter, head, push, target) ==
    IF <<source, letter, head, push, target>> \in Range(ts) THEN ts
    ELSE IF Len(source) = 0 \/ Len(target) = 0 THEN ts
    ELSE IF Len(letter) # 1 THEN ts
    ELSE IF (\E i \in 1..Len(push) : Len(push[i]) = 0) \/ Len(head) = 0 THEN ts
    ELSE Append(ts, <<source, letter, head, push, target>>)

\* The automaton after reset()
ResetAutomaton ==
    [val |-> "None", initialstate |-> None, initialstack |-> None,
     finalList |-> <<>>, transitionList |-> <<>>]

\* The loop of from_txt over rows[3:], from the k-th row on.  A row that is
\* not five tokens raises ValueError, and the handler raises TypeError when
\* it adds the name None to a string.
RECURSIVE FromTxtRows(_, _, _)
FromTxtRows(rows, k, aut) ==
    IF k > Len(rows) THEN aut
    ELSE LET parts == Split(Strip(rows[k]), " ")
         IN  IF Len(parts) # 5 THEN [aut EXCEPT !.val = "TypeError"]
             ELSE LET push_dot == parts[4]
                      push == IF push_dot = <<"%">> THEN <<>>
                              ELSE Split(Strip(push_dot), ".")
                  IN  FromTxtRows(rows, k + 1,
                        [aut EXCEPT !.transitionList =
                           AddTransitionTo(@, parts[1], parts[2], parts[3],
                                           push, parts[5])])

\* The automaton from_txt leaves, with val "None" when it returns and the
\* name of the exception when it raises (error() raises SystemExit)
FromTxt(text) ==
    LET rows == Split(Strip(text), "\n")
    IN  IF Len(rows) < 2 THEN [ResetAutomaton EXCEPT !.val = "SystemExit"]
        ELSE
        LET line1 == Split(rows[1], " ")
            line2 == Split(rows[2], " ")
        IN  IF line1[1] # <<"I">> THEN [ResetAutomaton EXCEPT !.val = "SystemExit"]
            ELSE IF line2[1] # <<"F">>
              THEN [ResetAutomaton EXCEPT !.val = "SystemExit"]
            ELSE IF Len(rows) < 3
              THEN [ResetAutomaton EXCEPT !.val = "IndexError"]
            ELSE
            LET line3 == Split(rows[3], " ")
                istate == IF Len(line1) = 2 THEN line1[2] ELSE None
                istack == IF Len(line3) = 2 THEN line3[2] ELSE None
            IN  IF line3[1] # <<"S">>
                  THEN [ResetAutomaton EXCEPT !.val = "SystemExit"]
                ELSE IF Len(line1) > 2
                  THEN [ResetAutomaton EXCEPT !.val = "SystemExit"]
                ELSE IF Len(line3) > 2
                  THEN [ResetAutomaton EXCEPT !.val = "SystemExit",
                                              !.initialstate = istate]
                ELSE FromTxtRows(rows, 4,
                       [ResetAutomaton EXCEPT !.initialstate = istate,
                                              !.initialstack = istack,
                                              !.finalList = Tail(line2)])

\* automaton.from_txt(text) on the text the last to_txtfile call returned
FromTxtCall ==
    /\ pc = "idle"
    /\ ret.op = "to_txtfile"
    /\ LET aut == FromTxt(ret.text)
       IN  /\ initialstate' = aut.initialstate
           /\ initialstack' = aut.initialstack
           /\ finalList' = aut.finalList
           /\ transitionList' = aut.transitionList
           /\ ret' = Ret("from_txt", aut.val)
    /\ UNCHANGED <<gramVars, pc, changes>>

(***************************************************************************)
(* Grammar: accessors and mutators                                         *)
(***************************************************************************)

LowerChars == {"a", "b", "c", "d", "e", "f", "g", "h", "i", "j", "k", "l", "m",
               "n", "o", "p", "q", "r", "s", "t", "u", "v", "w", "x", "y", "z"}

UpperChars == {"A", "B", "C", "D", "E", "F", "G", "H", "I", "J", "K", "L", "M",
               "N", "O", "P", "Q", "R", "S", "T", "U", "V", "W", "X", "Y", "Z"}

\* str.islower(): some cased character, and no uppercase one
IsLower(str) ==
    /\ \E i \in 1..Len(str) : str[i] \in LowerChars
    /\ \A i \in 1..Len(str) : str[i] \notin UpperChars

\* len(symbol1)==1 and symbol1.islower()
IsLetter(symbol1) == Len(symbol1) = 1 /\ IsLower(symbol1)

\* Appends to the list `acc` the elements of `s` it does not hold yet
\* (the "if x not in acc: acc.append(x)" idiom).
RECURSIVE AppendNew(_, _)
AppendNew(acc, s) ==
    IF s = <<>> THEN acc
    ELSE AppendNew(IF Head(s) \in Range(acc) THEN acc ELSE Append(acc, Head(s)),
                   Tail(s))

\* Grammar.get_alphabet on a rule list, as a list
RECURSIVE GetAlphabetFrom(_, _, _)
GetAlphabetFrom(rules, i, letters) ==
    IF i > Len(rules) THEN letters
    ELSE GetAlphabetFrom(rules, i + 1,
                         AppendNew(letters, SelectSeq(rules[i][2], IsLetter)))

GetAlphabet(rules) == GetAlphabetFrom(rules, 1, <<>>)

\* len(symbol1)>1 or not symbol1.islower()
IsNotLetter(symbol1) == Len(symbol1) > 1 \/ ~IsLower(symbol1)

\* Grammar.get_symbolalphabet on a rule list, as a list
RECURSIVE GetSymbolAlphabetFrom(_, _, _)
GetSymbolAlphabetFrom(rules, i, symbols) ==
    IF i > Len(rules) THEN symbols
    ELSE GetSymbolAlphabetFrom(rules, i + 1,
           AppendNew(AppendNew(symbols, <<rules[i][1]>>),
                     SelectSeq(rules[i][2], IsNotLetter)))

GetSymbolAlphabet(rules) == GetSymbolAlphabetFrom(rules, 1, <<>>)

\* Grammar.add_rule as a function of the rule list
AddRuleTo(rules, symbol, replace) ==
    IF <<symbol, replace>> \in Range(rules) THEN rules
    ELSE IF Len(symbol) = 0 THEN rules
    ELSE IF \E i \in 1..Len(replace) : Len(replace[i]) = 0 THEN rules
    ELSE Append(rules, <<symbol, replace>>)

\* Grammar.remove_rule as a function of the rule list
RemoveRuleFrom(rules, symbol, replace) ==
    IF <<symbol, replace>> \notin Range(rules) THEN rules
    ELSE ListRemove(rules, <<symbol, replace>>)

AddRule(symbol, replace) ==
    /\ pc = "idle"
    /\ ruleList' = AddRuleTo(ruleList, symbol, replace)
    /\ ret' = NoRet
    /\ UNCHANGED <<pdaVars, axiom, pc, changes>>

RemoveRule(symbol, replace) ==
    /\ pc = "idle"
    /\ ruleList' = RemoveRuleFrom(ruleList, symbol, replace)
    /\ ret' = NoRet
    /\ UNCHANGED <<pdaVars, axiom, pc, changes>>

SetAxiom(symbol) ==
    /\ pc = "idle"
    /\ axiom' = IF symbol = axiom THEN axiom ELSE symbol
    /\ ret' = NoRet
    /\ UNCHANGED <<pdaVars, ruleList, pc, changes>>

(***************************************************************************)
(* is_cnf                                                                  *)
(***************************************************************************)

EPSILON_NAME == <<"E", "P", "S", "I", "L", "O", "N">>   \* the literal 'EPSILON'

\* the body of the for loop of is_cnf for one rule: TRUE when it returns False
CnfRejects(rules, ax, symbol, replace) ==
    \/ Len(replace) > 2
    \/ Len(replace) = 1 /\ replace[1] \notin Range(GetSymbolAlphabet(rules))
    \/ \E j \in 1..Len(replace) :
          \/ replace[j] = ax
          \/ Len(replace) = 2 /\ replace[j] \in Range(GetAlphabet(rules))
          \/ symbol # ax /\ replace[j] = EPSILON_NAME

IsCnf(rules, ax) ==
    ~ \E i \in 1..Len(rules) : CnfRejects(rules, ax, rules[i][1], rules[i][2])

IsCnfCall ==
    /\ pc = "idle"
    /\ ret' = Ret("is_cnf", Bool(IsCnf(ruleList, axiom)))
    /\ UNCHANGED <<pdaVars, gramVars, pc, changes>>

(***************************************************************************)
(* generate_symbol, step_1, step_2                                         *)
(***************************************************************************)

\* What the name `all` is bound to when the functions below run.  The
\* module-level assignment calls Grammar.get_alphabet() on the class, without
\* an instance: it raises TypeError and binds nothing, so the name still
\* denotes Python's builtin function.
Builtin == <<"builtin">>
AllBinding == Builtin

\* generate_symbol: [err |-> TRUE] when it raises TypeError, else the symbol.
\* "x in all" raises on the builtin; on a list, the loop body "symbol + i"
\* adds an int to a str and raises as soon as it is entered.
GenerateSymbol(symbol) ==
    IF AllBinding = Builtin THEN [err |-> TRUE, sym |-> symbol]
    ELSE IF symbol \in Range(AllBinding) THEN [err |-> TRUE, sym |-> symbol]
    ELSE [err |-> FALSE, sym |-> symbol]

\* The for loop of step_1 from index i on.  The loop iterates over the live
\* ruleList, which add_rule extends.
RECURSIVE Step1Loop(_, _, _)
Step1Loop(rules, ax, i) ==
    IF i > Len(rules) THEN [rules |-> rules, axiom |-> ax, val |-> "None"]
    ELSE IF ax \in Range(rules[i][2])
      THEN LET new_symbol == GenerateSymbol(ax)
           IN  IF new_symbol.err
                 THEN [rules |-> rules, axiom |-> ax, val |-> "TypeError"]
               ELSE Step1Loop(AddRuleTo(rules, new_symbol.sym, rules[i][2]),
                              new_symbol.sym, i + 1)
    ELSE Step1Loop(rules, ax, i + 1)

Step1(rules, ax) == Step1Loop(rules, ax, 1)

Step1Call ==
    /\ pc = "idle"
    /\ LET r == Step1(ruleList, axiom)
       IN  /\ ruleList' = r.rules
           /\ axiom' = r.axiom
           /\ ret' = Ret("step_1", r.val)
    /\ UNCHANGED <<pdaVars, pc, changes>>

\* list_replace.get(letter, letter), list_replace a set of <<key, value>>
MapGet(list_replace, letter) ==
    IF \E p \in list_replace : p[1] = letter
      THEN (CHOOSE p \in list_replace : p[1] = letter)[2]
    ELSE letter

\* The loop "for letter in x" of step_2 from character j on.
RECURSIVE Step2Letters(_, _, _, _, _)
Step2Letters(rules, x, j, list_replace, new_str) ==
    IF j > Len(x) THEN [err |-> FALSE, map |-> list_replace, str |-> new_str]
    ELSE LET letter == <<x[j]>>
         IN  IF /\ letter \in Range(GetAlphabet(rules))
                /\ ~ \E p \in list_replace : p[1] = letter
               THEN LET new_symbol == GenerateSymbol(letter)
                    IN  IF new_symbol.err
                          THEN [err |-> TRUE, map |-> list_replace, str |-> new_str]
                        ELSE Step2Letters(rules, x, j + 1,
                               list_replace \cup {<<letter, new_symbol.sym>>},
                               new_str \o new_symbol.sym)
             ELSE Step2Letters(rules, x, j + 1, list_replace,
                               new_str \o MapGet(list_replace, letter))

\* The loop "for x in replace" of step_2 from symbol k on.
RECURSIVE Step2Symbols(_, _, _, _, _)
Step2Symbols(rules, replace, k, list_replace, new_replace) ==
    IF k > Len(replace) THEN [err |-> FALSE, new_replace |-> new_replace]
    ELSE LET r == Step2Letters(rules, replace[k], 1, list_replace, <<>>)
         IN  IF r.err THEN [err |-> TRUE, new_replace |-> new_replace]
             ELSE Step2Symbols(rules, replace, k + 1, r.map,
                               Append(new_replace, r.str))

\* The for loop of step_2 from index i on, over the live ruleList that
\* remove_rule and add_rule change under it.
RECURSIVE Step2Loop(_, _)
Step2Loop(rules, i) ==
    IF i > Len(rules) THEN [rules |-> rules, val |-> "None"]
    ELSE IF Len(rules[i][2]) >= 2
      THEN LET r == Step2Symbols(rules, rules[i][2], 1, {}, <<>>)
           IN  IF r.err THEN [rules |-> rules, val |-> "TypeError"]
               ELSE Step2Loop(
                      AddRuleTo(RemoveRuleFrom(rules, rules[i][1], rules[i][2]),
                                rules[i][1], r.new_replace),
                      i + 1)
    ELSE Step2Loop(rules, i + 1)

Step2(rules) == Step2Loop(rules, 1)

Step2Call ==
    /\ pc = "idle"
    /\ LET r == Step2(ruleList)
       IN  /\ ruleList' = r.rules
           /\ ret' = Ret("step_2", r.val)
    /\ UNCHANGED <<pdaVars, axiom, pc, changes>>

(***************************************************************************)
(* eliminate_unit_productions                                              *)
(*                                                                         *)
(* get_rules() yields the pairs (symbol, replace) of ruleList, so the      *)
(* loop variable `replaces` is one rule's replacement and `replace` one of *)
(* its symbols: len(replace) is the length of a symbol's name.             *)
(***************************************************************************)

\* Lines 109-114: the symbols the rules of `target` contribute to new_replaces.
\* changes is set whenever one is appended.
RECURSIVE EupExpand(_, _, _, _)
EupExpand(rules, k, target, new_replaces) ==
    IF k > Len(rules) THEN new_replaces
    ELSE EupExpand(rules, k + 1, target,
                   IF rules[k][1] = target
                     THEN AppendNew(new_replaces, rules[k][2])
                   ELSE new_replaces)

\* Lines 106-116 from symbol j of `replaces` on.
RECURSIVE EupReplaces(_, _, _, _, _, _)
EupReplaces(rules, symbol, replaces, j, new_replaces, chg) ==
    IF j > Len(replaces) THEN [new_replaces |-> new_replaces, changes |-> chg]
    ELSE LET replace == replaces[j]
         IN  IF /\ Len(replace) = 1
                /\ <<replace[1]>> \in Range(GetSymbolAlphabet(rules))
                /\ <<replace[1]>> # symbol
               THEN LET e == EupExpand(rules, 1, <<replace[1]>>, new_replaces)
                    IN  EupReplaces(rules, symbol, replaces, j + 1, e,
                                    chg \/ Len(e) > Len(new_replaces))
             ELSE EupReplaces(rules, symbol, replaces, j + 1,
                              Append(new_replaces, replace), chg)

\* Lines 103-117: one iteration of the while loop, from rule i on.
RECURSIVE EupPass(_, _, _, _)
EupPass(rules, i, new_ruleList, chg) ==
    IF i > Len(rules) THEN [rules |-> new_ruleList, changes |-> chg]
    ELSE LET r == EupReplaces(rules, rules[i][1], rules[i][2], 1, <<>>, chg)
         IN  EupPass(rules, i + 1,
                     Append(new_ruleList, <<rules[i][1], r.new_replaces>>),
                     r.changes)

\* Line 100: the call starts with changes = True.
EupStart ==
    /\ pc = "idle"
    /\ pc' = "eup_while"
    /\ changes' = TRUE
    /\ ret' = NoRet
    /\ UNCHANGED <<pdaVars, gramVars>>

\* Line 101: the test of the while loop; the function returns when it fails.
EupWhile ==
    /\ pc = "eup_while"
    /\ IF changes
         THEN pc' = "eup_body" /\ ret' = ret
         ELSE pc' = "idle" /\ ret' = Ret("eliminate_unit_productions", "None")
    /\ UNCHANGED <<pdaVars, gramVars, changes>>

\* Lines 102-118: the body of the while loop.  The model follows the loop
\* while every replacement stays within MaxReplLen + 1 symbols.
EupBodyResult == EupPass(ruleList, 1, <<>>, FALSE)

EupOverBound ==
    /\ pc = "eup_body"
    /\ \E i \in 1..Len(EupBodyResult.rules) :
          Len(EupBodyResult.rules[i][2]) > MaxReplLen + 1

EupBody ==
    /\ pc = "eup_body"
    /\ ~EupOverBound
    /\ ruleList' = EupBodyResult.rules
    /\ changes' = EupBodyResult.changes
    /\ pc' = "eup_while"
    /\ UNCHANGED <<pdaVars, axiom, ret>>

(***************************************************************************)
(* remove_useless_symbols                                                  *)
(*                                                                         *)
(* As in eliminate_unit_productions, `replace` is one symbol of a rule's   *)
(* replacement and `char` one character of that symbol's name.             *)
(***************************************************************************)

\* Line 131: all(char in grammar.get_alphabet() or char in generating ...)
AllCharsGenerating(rules, generating, replace) ==
    \A c \in 1..Len(replace) :
        \/ <<replace[c]>> \in Range(GetAlphabet(rules))
        \/ <<replace[c]>> \in generating

\* Lines 129-134: one sweep of the for loop from rule i on.
RECURSIVE GeneratingSweep(_, _, _)
GeneratingSweep(rules, i, generating) ==
    IF i > Len(rules) THEN generating
    ELSE GeneratingSweep(rules, i + 1,
           IF \E j \in 1..Len(rules[i][2]) :
                 AllCharsGenerating(rules, generating, rules[i][2][j])
             THEN generating \cup {rules[i][1]}
           ELSE generating)

\* Lines 126-134: the while loop, until a sweep adds nothing.
RECURSIVE GeneratingLoop(_, _)
GeneratingLoop(rules, generating) ==
    LET g == GeneratingSweep(rules, 1, generating)
    IN  IF g = generating THEN generating ELSE GeneratingLoop(rules, g)

\* [x for x in rules if x[0] in keep]
KeepRules(rules, keep) ==
    LET Kept(rule) == rule[1] \in keep IN SelectSeq(rules, Kept)

\* Lines 140-149.  The traversal never looks at `current`: its first
\* iteration scans every rule and adds every character of every replacement
\* symbol that is a non-terminal, and later iterations find nothing new.
ReachableSet(rules, ax) ==
    {ax} \cup UNION {
        UNION { { <<rules[i][2][j][c]>> :
                    c \in {c \in 1..Len(rules[i][2][j]) :
                             <<rules[i][2][j][c]>>
                                \in Range(GetSymbolAlphabet(rules))} } :
                j \in 1..Len(rules[i][2]) } :
        i \in 1..Len(rules) }

RemoveUseless(rules, ax) ==
    LET generating == GeneratingLoop(rules, {})
        pruned     == KeepRules(rules, generating)
    IN  KeepRules(pruned, ReachableSet(pruned, ax))

RemoveUselessCall ==
    /\ pc = "idle"
    /\ ruleList' = RemoveUseless(ruleList, axiom)
    /\ ret' = Ret("remove_useless_symbols", "None")
    /\ UNCHANGED <<pdaVars, axiom, pc, changes>>

(***************************************************************************)
(* remove_null_productions                                                 *)
(***************************************************************************)

\* Line 165, for one symbol `replace` of a replacement
NullableBy(nullable, replace) ==
    \/ replace = <<>>
    \/ \A c \in 1..Len(replace) : <<replace[c]>> \in nullable

\* Lines 163-167: one sweep of the for loop from rule i on.
RECURSIVE NullableSweep(_, _, _)
NullableSweep(rules, i, nullable) ==
    IF i > Len(rules) THEN nullable
    ELSE NullableSweep(rules, i + 1,
           IF \E j \in 1..Len(rules[i][2]) : NullableBy(nullable, rules[i][2][j])
             THEN nullable \cup {rules[i][1]}
           ELSE nullable)

\* Lines 160-167: the while loop, until a sweep adds nothing.
RECURSIVE NullableLoop(_, _)
NullableLoop(rules, nullable) ==
    LET n == NullableSweep(rules, 1, nullable)
    IN  IF n = nullable THEN nullable ELSE NullableLoop(rules, n)

\* tuple(subset): a tuple of characters, which is not a str
TupleOf(subset) == <<"tuple">> \o subset

\* Lines 172-179: the set new_replaces of one rule
NewReplaces(nullable, ax, symbol, replaces) ==
    Range(replaces) \cup
    UNION { { TupleOf(SubSeq(replaces[j], 1, i - 1)
                      \o SubSeq(replaces[j], i + 1, Len(replaces[j]))) :
                i \in {i \in 1..Len(replaces[j]) :
                         /\ <<replaces[j][i]>> \in nullable
                         /\ \/ Len(replaces[j]) > 1
                            \/ symbol = ax} } :
            j \in {j \in 1..Len(replaces) : replaces[j] # <<>>} }

\* The lists list(a_set) can produce: a set of strings is iterated in the
\* order of the strings' hashes, which change from one run to the next.
RECURSIVE ListsOf(_)
ListsOf(S) ==
    IF S = {} THEN {<<>>}
    ELSE UNION {{<<x>> \o l : l \in ListsOf(S \ {x})} : x \in S}

\* Line 185: [replace for replace in replaces if replace or symbol == axiom]
StripEmpty(ax, symbol, replaces) ==
    LET Kept(replace) == replace # <<>> \/ symbol = ax
    IN  SelectSeq(replaces, Kept)

\* Lines 171-186 from rule i on: the rule lists the pass can leave behind
RECURSIVE RemoveNullFrom(_, _, _, _)
RemoveNullFrom(rules, ax, nullable, i) ==
    IF i > Len(rules) THEN {<<>>}
    ELSE LET symbol   == rules[i][1]
             replaces == rules[i][2]
         IN  {<<<<symbol, StripEmpty(ax, symbol, l)>>>> \o rest :
                 l \in ListsOf(NewReplaces(nullable, ax, symbol, replaces)),
                 rest \in RemoveNullFrom(rules, ax, nullable, i + 1)}

RemoveNull(rules, ax) == RemoveNullFrom(rules, ax, NullableLoop(rules, {}), 1)

RemoveNullCall ==
    /\ pc = "idle"
    /\ ruleList' \in RemoveNull(ruleList, axiom)
    /\ ret' = Ret("remove_null_productions", "None")
    /\ UNCHANGED <<pdaVars, axiom, pc, changes>>

(***************************************************************************)
(* Specifications                                                          *)
(***************************************************************************)

Init ==
    /\ initialstate = None
    /\ initialstack = None
    /\ finalList = <<>>
    /\ transitionList = <<>>
    /\ axiom = None
    /\ ruleList = <<>>
    /\ pc = "idle"
    /\ changes = FALSE
    /\ ret = NoRet

\* Arguments of the automaton's mutators and of execute
States  == {<<"q">>, <<"p">>}
Letters == {<<"a">>}
StackSymbols == {<<"Z">>, <<"A">>}
Pushes  == {<<>>, <<EPSILON>>, <<<<"A">>, <<"Z">>>>}
Inputs  == UNION {[1..n -> {"a"}] : n \in 0..MaxInput}

Next ==
    \/ \E source \in States, letter \in Letters, head \in StackSymbols,
          push \in Pushes, target \in States :
          /\ Len(transitionList) < MaxTrans
          /\ AddTransition(source, letter, head, push, target)
    \/ \E source \in States, letter \in Letters, head \in StackSymbols,
          push \in Pushes, target \in States :
          RemoveTransition(source, letter, head, push, target)
    \/ \E state \in States : Len(finalList) < MaxFinal /\ MakeFinal(state)
    \/ \E state \in States : UnmakeFinal(state)
    \/ \E state \in States : SetInitialState(state)
    \/ \E symbol \in StackSymbols : SetInitialStack(symbol)
    \/ IsDeterministicCall
    \/ \E s \in Inputs : ExecuteCall(s)

Spec == Init /\ [][Next]_vars

\* Determinism check alone: every duplicate-free list of up to MaxDetTrans
\* transitions that differ in each component is_deterministic reads, and in
\* the target, in every order
DetLetters == {<<"a">>, <<"b">>, EPSILON}

DetNext ==
    \/ \E source \in States, letter \in DetLetters, head \in StackSymbols,
          target \in States :
          /\ Len(transitionList) < MaxDetTrans
          /\ AddTransition(source, letter, head, <<>>, target)
    \/ IsDeterministicCall

DetSpec == Init /\ [][DetNext]_vars

\* Saving and reloading: automata of up to MaxTrans transitions and
\* MaxTxtFinal final states, with and without initial state and stack symbol
TxtLetters == {<<"a">>, EPSILON}
TxtPushes  == {<<>>, <<<<"A">>, <<"Z">>>>}

TxtNext ==
    \/ \E source \in States, letter \in TxtLetters, head \in StackSymbols,
          push \in TxtPushes, target \in States :
          /\ Len(transitionList) < MaxTrans
          /\ AddTransition(source, letter, head, push, target)
    \/ \E state \in States : Len(finalList) < MaxTxtFinal /\ MakeFinal(state)
    \/ \E state \in States : SetInitialState(state)
    \/ \E symbol \in StackSymbols : SetInitialStack(symbol)
    \/ ToTxtFileCall
    \/ FromTxtCall

TxtSpec == Init /\ [][TxtNext]_vars

\* The automaton's mutators called with arbitrary strings, the empty string
\* and a two-character letter among them
ArbStates  == {<<>>, <<"q">>, <<"p">>}
ArbLetters == {<<>>, <<"a">>, <<"a", "b">>}
ArbSymbols == {<<>>, <<"Z">>}
ArbPushes  == {<<>>, << <<>> >>, << <<"Z">> >>, << <<"Z">>, <<>> >>}

ArbNext ==
    \/ \E source \in ArbStates, letter \in ArbLetters, head \in ArbSymbols,
          push \in ArbPushes, target \in ArbStates :
          /\ Len(transitionList) < MaxTrans
          /\ AddTransition(source, letter, head, push, target)
    \/ \E source \in ArbStates, letter \in ArbLetters, head \in ArbSymbols,
          push \in ArbPushes, target \in ArbStates :
          RemoveTransition(source, letter, head, push, target)
    \/ \E state \in ArbStates : Len(finalList) < MaxFinal /\ MakeFinal(state)
    \/ \E state \in ArbStates : UnmakeFinal(state)
    \/ \E state \in ArbStates : SetInitialState(state)
    \/ \E symbol \in ArbSymbols : SetInitialStack(symbol)

ArbSpec == Init /\ [][ArbNext]_vars

\* Arguments of the grammar's mutators
NonTerminals == {<<"S">>, <<"A">>, <<"S", "0">>}
Symbols      == NonTerminals \cup {<<"a">>}
Replacements == UNION {[1..n -> Symbols] : n \in 0..MaxReplLen}

GramMutate ==
    \/ \E symbol \in NonTerminals, replace \in Replacements :
          /\ Len(ruleList) < MaxRules
          /\ AddRule(symbol, replace)
    \/ \E symbol \in NonTerminals, replace \in Replacements :
          RemoveRule(symbol, replace)
    \/ \E symbol \in NonTerminals : SetAxiom(symbol)

GramNext ==
    \/ GramMutate
    \/ IsCnfCall
    \/ Step1Call
    \/ Step2Call
    \/ EupStart
    \/ EupWhile
    \/ EupBody
    \/ RemoveUselessCall
    \/ RemoveNullCall

GramSpec == Init /\ [][GramNext]_vars

\* eliminate_unit_productions alone.  Python runs a started call on: the
\* loop test and the loop body are taken whenever they are enabled.
EupSymbols == {<<"S">>, <<"A">>, <<"a">>}
EupReplacements == UNION {[1..n -> EupSymbols] : n \in 0..MaxReplLen}

EupNext ==
    \/ \E symbol \in {<<"S">>, <<"A">>}, replace \in EupReplacements :
          /\ Len(ruleList) < MaxRules
          /\ AddRule(symbol, replace)
    \/ EupStart
    \/ EupWhile
    \/ EupBody

EupSpec == Init /\ [][EupNext]_vars /\ WF_vars(EupWhile) /\ WF_vars(EupBody)

(***************************************************************************)
(* Properties                                                              *)
(***************************************************************************)

\* Two transitions that leave a configuration with a choice: same source
\* state, same popped symbol, and letters equal or one of them EPSILON.
Conflict(t1, t2) ==
    /\ t1[1] = t2[1]
    /\ t1[3] = t2[3]
    /\ \/ t1[2] = t2[2]
       \/ t1[2] = EPSILON
       \/ t2[2] = EPSILON

NoConflict(ts) ==
    ~ \E i, j \in 1..Len(ts) : i # j /\ Conflict(ts[i], ts[j])

\* C1: whatever the order of the transition list, is_deterministic returns
\* True if and only if no two distinct transitions have the same source state
\* and popped symbol with letters that are equal or of which one is EPSILON.
C1_DeterministicIffNoConflict ==
    ret.op = "is_deterministic" =>
        (ret.val = "True" <=> NoConflict(transitionList))

\* C1 witness: the check has rejected a list of three transitions whose only
\* conflict is an EPSILON transition stored after a lettered one.
C1_Witness ==
    /\ ret.op = "is_deterministic"
    /\ ret.val = "False"
    /\ Len(transitionList) = 3
    /\ transitionList[3][2] = EPSILON
    /\ transitionList[1][2] # EPSILON
    /\ Conflict(transitionList[1], transitionList[3])
    /\ ~Conflict(transitionList[1], transitionList[2])
    /\ ~Conflict(transitionList[2], transitionList[3])

\* C2: on a deterministic automaton that has an initial state and an initial
\* stack symbol, execute returns True or False on every input: it raises
\* nothing and returns no other value.
C2_ExecuteReturnsBoolean ==
    ( /\ ret.op = "execute"
      /\ NoConflict(transitionList)
      /\ initialstate # None
      /\ initialstack # None )
    => ret.val \in {"True", "False"}

\* C3: execute on the empty string returns True when the initial state is
\* final and False when it is not, whatever else the automaton holds, and
\* takes no transition.
C3_EmptyInputIsInitialFinal ==
    (ret.op = "execute" /\ ret.input = <<>>) =>
        /\ ret.steps = 0
        /\ ret.val = Bool(initialstate \in Range(finalList))

\* C4: after step_1 on a grammar with an axiom, the axiom occurs in the
\* replacement of no rule.
C4_AxiomInNoReplacement ==
    (ret.op = "step_1" /\ axiom # None) =>
        \A i \in 1..Len(ruleList) : axiom \notin Range(ruleList[i][2])

\* C5: when step_2 has returned, no rule whose replacement has two symbols or
\* more holds a terminal (a single lowercase character) in its replacement.
C5_NoTerminalInLongRule ==
    (ret.op = "step_2" /\ ret.val = "None") =>
        \A i \in 1..Len(ruleList) :
            Len(ruleList[i][2]) >= 2 =>
                \A j \in 1..Len(ruleList[i][2]) : ~IsLetter(ruleList[i][2][j])

\* C6: a started eliminate_unit_productions returns: its loop reaches an
\* iteration that changes nothing (or leaves the replacement lengths the
\* model follows).
C6_EupTerminates == (pc = "eup_while") ~> (pc = "idle" \/ EupOverBound)

\* C7: when eliminate_unit_productions has returned, no rule A -> B is left
\* whose replacement is the single non-terminal B, B # A, B the left-hand
\* side of some rule.
C7_NoUnitProductionLeft ==
    ret.op = "eliminate_unit_productions" =>
        ~ \E i, k \in 1..Len(ruleList) :
              /\ Len(ruleList[i][2]) = 1
              /\ IsNotLetter(ruleList[i][2][1])
              /\ ruleList[i][2][1] # ruleList[i][1]
              /\ ruleList[k][1] = ruleList[i][2][1]

\* The non-terminals of a grammar: left-hand sides and the replacement
\* symbols that are not terminals.
NonTerminalsOf(rules) ==
    {rules[i][1] : i \in 1..Len(rules)} \cup
    UNION {{x \in Range(rules[i][2]) : IsNotLetter(x)} : i \in 1..Len(rules)}

\* The generating non-terminals: those with a rule whose whole replacement
\* is made of terminals and generating non-terminals.
RECURSIVE GeneratingClosure(_, _)
GeneratingClosure(rules, G) ==
    LET G2 == G \cup {rules[i][1] : i \in {i \in 1..Len(rules) :
                        \A x \in Range(rules[i][2]) : IsLetter(x) \/ x \in G}}
    IN  IF G2 = G THEN G ELSE GeneratingClosure(rules, G2)

\* The non-terminals reachable from the axiom through the rules.
RECURSIVE ReachableClosure(_, _)
ReachableClosure(rules, R) ==
    LET R2 == R \cup UNION {{x \in Range(rules[i][2]) : IsNotLetter(x)} :
                              i \in {i \in 1..Len(rules) : rules[i][1] \in R}}
    IN  IF R2 = R THEN R ELSE ReachableClosure(rules, R2)

\* C8: after remove_useless_symbols on a grammar with an axiom, every
\* non-terminal left in the grammar is reachable from the axiom through the
\* remaining rules and is generating.
C8_RemainingSymbolsUseful ==
    (ret.op = "remove_useless_symbols" /\ axiom # None) =>
        /\ NonTerminalsOf(ruleList) \subseteq ReachableClosure(ruleList, {axiom})
        /\ NonTerminalsOf(ruleList) \subseteq GeneratingClosure(ruleList, {})

\* C9: after remove_null_productions on a grammar with an axiom, only the
\* axiom has a rule with an empty replacement.
C9_OnlyAxiomHasEmptyRule ==
    (ret.op = "remove_null_productions" /\ axiom # None) =>
        \A i \in 1..Len(ruleList) :
            ruleList[i][2] = <<>> => ruleList[i][1] = axiom

\* Chomsky normal form as the specification words it.
CnfShape(rules, ax) ==
    \A i \in 1..Len(rules) :
        LET replace == rules[i][2]
        IN  /\ Len(replace) <= 2
            /\ Len(replace) = 1 => IsLetter(replace[1])
            /\ Len(replace) = 2 => IsNotLetter(replace[1]) /\ IsNotLetter(replace[2])
            /\ Len(replace) = 0 => rules[i][1] = ax

\* C10: on a grammar with an axiom, is_cnf returns True if and only if every
\* replacement has at most two symbols, every replacement of one symbol is a
\* terminal, every replacement of two symbols is two non-terminals, and only
\* the axiom has an empty replacement.
C10_IsCnfIffShape ==
    (ret.op = "is_cnf" /\ axiom # None) =>
        (ret.val = "True" <=> CnfShape(ruleList, axiom))

\* C11: saving an automaton built from well-formed tokens with to_txtfile and
\* reading the text back with from_txt gives the same transition set, the
\* same initial state and initial stack symbol and the same final-state set,
\* also when there is no final state, initial state, stack symbol or
\* transition.
C11_RoundTrip ==
    [][(ret.op = "to_txtfile" /\ ret'.op = "from_txt") =>
         /\ Range(transitionList') = Range(transitionList)
         /\ initialstate' = initialstate
         /\ initialstack' = initialstack
         /\ Range(finalList') = Range(finalList)]_vars

\* The configuration execute is in when it has read all of prefix
PrefixRun(prefix) ==
    Execute(transitionList, finalList, initialstate, initialstack, prefix)

\* C12: when execute takes a transition (s, c, A, push, t) in state s with A
\* on top of the stack on the character c, the state becomes t and the stack
\* becomes the previous stack without its top, under the symbols of push with
\* the first of them on top; with an empty push it is the previous stack
\* without its top.  (The property is stated for the last character of the
\* input, every prefix being an input too, and leaves aside a push that
\* starts with EPSILON.)
C12_TransitionEffect ==
    (ret.op = "execute" /\ ret.input # <<>>) =>
        LET s   == ret.input
            n   == Len(s)
            pre == PrefixRun(SubSeq(s, 1, n - 1))
        IN  (pre.val \in {"True", "None"} /\ pre.stack # <<>>) =>
              \A t \in Range(transitionList) :
                  ( /\ t[1] = pre.state
                    /\ t[2] = <<s[n]>>
                    /\ t[3] = pre.stack[Len(pre.stack)]
                    /\ (t[4] = <<>> \/ t[4][1] # EPSILON) )
                  => /\ ret.val \in {"True", "None"}
                     /\ ret.steps = n
                     /\ ret.state = t[5]
                     /\ ret.stack = SubSeq(pre.stack, 1, Len(pre.stack) - 1)
                                      \o Reverse(t[4])

\* The symbols a grammar uses: left sides and every symbol of a replacement
UsedSymbols(rules) ==
    {rules[i][1] : i \in 1..Len(rules)}
      \cup UNION {Range(rules[i][2]) : i \in 1..Len(rules)}

\* C13: when the axiom occurs in some replacement, step_1 makes a symbol the
\* grammar does not use the new axiom and adds exactly one rule, new axiom ->
\* [old axiom], leaving the other rules as they are; when the axiom occurs in
\* no replacement, step_1 changes neither the rules nor the axiom.
C13_Step1Effect ==
    [][(ret'.op = "step_1" /\ axiom # None) =>
         IF \E i \in 1..Len(ruleList) : axiom \in Range(ruleList[i][2])
           THEN /\ ret'.val = "None"
                /\ axiom' \notin UsedSymbols(ruleList)
                /\ ruleList' = Append(ruleList, <<axiom', <<axiom>>>>)
           ELSE /\ ret'.val = "None"
                /\ ruleList' = ruleList
                /\ axiom' = axiom]_vars

\* C14: the rule list never holds two equal (non_terminal, replacement)
\* pairs, whatever add_rule, remove_rule and the passes have done.
C14_NoDuplicateRule ==
    \A i, j \in 1..Len(ruleList) : i # j => ruleList[i] # ruleList[j]

\* C15: whatever strings the automaton's mutators were called with, every
\* state (initial, final, source or target of a transition) and every stack
\* symbol (initial, popped or pushed) is a non-empty string, and every
\* transition letter is a single character.
C15_WellFormedAutomaton ==
    /\ initialstate # <<>>
    /\ initialstack # <<>>
    /\ \A i \in 1..Len(finalList) : finalList[i] # <<>>
    /\ \A i \in 1..Len(transitionList) :
         LET t == transitionList[i]
         IN  /\ t[1] # <<>>
             /\ Len(t[2]) = 1
             /\ t[3] # <<>>
             /\ \A j \in 1..Len(t[4]) : t[4][j] # <<>>
             /\ t[5] # <<>>

=============================================================================
